---- MODULE Spec2Model ----
(***************************************************************************)
(* Wallet ledger of Psycushal/Infollion-Internship.                        *)
(*                                                                         *)
(* src/models/Transaction.js holds three pieces: the Transaction schema    *)
(* (lines 1-14), utils/fraudDetection (lines 15-55) and the wallet router  *)
(* (lines 56-366).  Every handler of the router opens a mongoose session,  *)
(* starts a MongoDB transaction and awaits one database call after the     *)
(* other; each await is a point where another request may run, so each     *)
(* database call is one action of a handler below.                         *)
(*                                                                         *)
(* The database is modelled by what MongoDB transactions do: the first     *)
(* read through the session fixes a snapshot, writes through the session   *)
(* stay private until commitTransaction, a write to a document that        *)
(* another transaction changed after the snapshot (or holds uncommitted)   *)
(* throws a write conflict at once, and reads made WITHOUT the session     *)
(* see committed data only.                                                *)
(*                                                                         *)
(* Money is counted in whole units; time is counted in hours.              *)
(***************************************************************************)
EXTENDS Integers, Sequences, FiniteSets, TLC

VARIABLES balance, ledger, req, now, nReqs, opening, okWithdrawn

vars == <<balance, ledger, req, now, nReqs, opening, okWithdrawn>>

(* ---------------------------------------------------------------- bounds *)
MaxReqs == 2         \* requests of one behaviour of Spec, all of which may overlap
MaxSeqReqs == 7      \* requests of one behaviour of SpecSeq, one after the other
MaxSeqClock == 2     \* hours the clock may advance in SpecSeq
MaxInputReqs == 2    \* requests of one behaviour of SpecInputs, one after the other
MaxLiveReqs == 2     \* requests of one behaviour of SpecLive, all of which may overlap
MaxLargeReqs == 2    \* requests of one behaviour of SpecLarge, one after the other
MaxHistory == 5      \* records of the collection detectFraud reads in SpecFraud

(* ------------------------------------------------------- program constants *)
OneHour == 1                 \* 60 * 60 * 1000 ms, in hours
PastMonth == 720             \* 30 * 24 * 60 * 60 * 1000 ms, in hours
VelocityLimit == 5           \* recentTransfers.length >= 5
LargeWithdrawal == 1000      \* transaction.amount > 1000
AverageFactor == 3           \* transaction.amount > avgAmount * 3

(* ------------------------------------------------------------ the world *)
Procs == DOMAIN req          \* the handler slots of the server
Wallets == {1, 2}            \* users that own a wallet document
Actors == {1, 2, 3}          \* authenticated users; user 3 has no wallet
DeletedUser == 4             \* a user document with isDeleted: true
NoUser == 0                  \* an unset ObjectId / a missing toEmail
UnknownEmail == 5            \* an email no user document has
Keys == 0..5                 \* toEmail: 0 missing, 1..4 the email of that user, 5 unknown
Amounts == {1, 4}            \* req.body.amount in Spec
SeqAmounts == {1}            \* req.body.amount in SpecSeq
AnyAmounts == {-1, 0, 1, 4, 5}  \* req.body.amount in SpecInputs

InitBalance == [u \in Wallets |-> IF u = 1 THEN 4 ELSE 1]
SeqInitBalance == [u \in Wallets |-> IF u = 1 THEN 6 ELSE 0]

NoReason == "null"
Velocity == "Multiple transfers in a short period"
Large == "Large withdrawal"
Outlier == "Transaction amount significantly higher than average"

NoTxn == [id |-> 0, fromUserId |-> NoUser, toUserId |-> NoUser, amount |-> 0,
          type |-> "NONE", currency |-> "USD", isFlagged |-> FALSE,
          flagReason |-> NoReason, createdAt |-> 0]

NoRes == [status |-> 0, message |-> "", at |-> "", balance |-> 0, transaction |-> NoTxn]

NoBal == [u \in Wallets |-> 0]

Idle == [pc |-> "idle", keep |-> FALSE, op |-> "NONE", id |-> 0, actor |-> NoUser, amount |-> 0,
         toEmail |-> 0, recipient |-> NoUser,
         hasSnap |-> FALSE, snap |-> NoBal, stale |-> {},
         wallet |-> 0, recipientWallet |-> 0, written |-> {},
         transaction |-> NoTxn, saved |-> NoTxn,
         txn |-> "none", ended |-> FALSE, res |-> NoRes]

(* ------------------------------------------------------------ User.findOne *)
\* User.findOne({ email: toEmail, isDeleted: false }): the user or null
FindUser(toEmail) == IF toEmail \in Actors THEN toEmail ELSE NoUser

(* ----------------------------------------------------------- detectFraud *)
RECURSIVE SumAmount(_, _)
SumAmount(led, S) ==
    IF S = {} THEN 0
    ELSE LET i == CHOOSE j \in S : TRUE
         IN led[i].amount + SumAmount(led, S \ {i})

\* Transaction.find({ fromUserId, type: 'TRANSFER', createdAt: { $gte: oneHourAgo } })
RecentTransfers(userId, led, t) ==
    {i \in 1..Len(led) : /\ led[i].fromUserId = userId
                         /\ led[i].type = "TRANSFER"
                         /\ led[i].createdAt >= t - OneHour}

\* Transaction.find({ $or: [{ fromUserId }, { toUserId }], createdAt: { $gte: pastMonth } })
RecentTransactions(userId, led, t) ==
    {i \in 1..Len(led) : /\ (led[i].fromUserId = userId \/ led[i].toUserId = userId)
                         /\ led[i].createdAt >= t - PastMonth}

VelocityRule(userId, transaction, led, t) ==
    /\ transaction.type = "TRANSFER"
    /\ Cardinality(RecentTransfers(userId, led, t)) >= VelocityLimit

LargeRule_Inclusive(transaction) ==
    transaction.type = "WITHDRAWAL" /\ transaction.amount >= LargeWithdrawal

LargeRule(transaction) ==
    transaction.type = "WITHDRAWAL" /\ transaction.amount > LargeWithdrawal

\* amount > (sum / n) * 3, stated without the division: amount * n > 3 * sum
AverageRule(userId, transaction, led, t) ==
    LET S == RecentTransactions(userId, led, t)
    IN /\ Cardinality(S) > 0
       /\ transaction.amount * Cardinality(S) > SumAmount(led, S) * AverageFactor

\* the whole function, when both of its queries see the same collection
detectFraud_AverageFirst(userId, transaction, led, t) ==
    IF VelocityRule(userId, transaction, led, t) THEN Velocity
    ELSE IF AverageRule(userId, transaction, led, t) THEN Outlier
    ELSE IF LargeRule(transaction) THEN Large
    ELSE NoReason

detectFraud(userId, transaction, led, t) ==
    IF VelocityRule(userId, transaction, led, t) THEN Velocity
    ELSE IF LargeRule(transaction) THEN Large
    ELSE IF AverageRule(userId, transaction, led, t) THEN Outlier
    ELSE NoReason

(* ------------------------------------------------- the session's transaction *)
Answer_NoEnd(r, status, message, at, txn) ==
    [r EXCEPT !.pc = "done",
              !.op = IF r.keep THEN @ ELSE "NONE",
              !.actor = IF r.keep THEN @ ELSE NoUser,
              !.amount = IF r.keep THEN @ ELSE 0,
              !.toEmail = IF r.keep THEN @ ELSE 0,
              !.recipient = IF r.keep THEN @ ELSE NoUser,
              !.hasSnap = FALSE, !.snap = NoBal, !.stale = {},
              !.written = {}, !.wallet = 0, !.recipientWallet = 0,
              !.transaction = NoTxn, !.saved = NoTxn,
              !.txn = txn,
              !.res = [NoRes EXCEPT !.status = status, !.message = message, !.at = at]]

\* what the handler leaves behind when it has answered: the session is ended
\* by the finally block, private writes and the snapshot are gone.  The
\* request body stays on record (a history of the request) only where the
\* specification asks for it with keep.
Answer(r, status, message, at, txn) ==
    [r EXCEPT !.pc = "done",
              !.op = IF r.keep THEN @ ELSE "NONE",
              !.actor = IF r.keep THEN @ ELSE NoUser,
              !.amount = IF r.keep THEN @ ELSE 0,
              !.toEmail = IF r.keep THEN @ ELSE 0,
              !.recipient = IF r.keep THEN @ ELSE NoUser,
              !.hasSnap = FALSE, !.snap = NoBal, !.stale = {},
              !.written = {}, !.wallet = 0, !.recipientWallet = 0,
              !.transaction = NoTxn, !.saved = NoTxn,
              !.txn = txn, !.ended = TRUE,
              !.res = [NoRes EXCEPT !.status = status, !.message = message, !.at = at]]

Catch_Swallow(r, message, at) == [r EXCEPT !.pc = "commit"]

Catch_Retry(r, message, at) ==
    [r EXCEPT !.pc = "findWallet", !.hasSnap = FALSE, !.snap = NoBal, !.stale = {},
              !.written = {}, !.wallet = 0, !.recipientWallet = 0,
              !.transaction = NoTxn, !.saved = NoTxn]

\* catch (error) { await session.abortTransaction(); res.status(500)... }
Catch(r, message, at) == Answer(r, 500, message, at, "aborted")

Reject_FallThrough(r, status, message, at) == [r EXCEPT !.pc = "saveWallet"]

\* await session.abortTransaction(); return res.status(...).json({ message });
Reject(r, status, message, at) == Answer(r, status, message, at, "aborted")

WriteConflict_Off(p, u) == FALSE

\* a write through the session to wallet u conflicts when the document was
\* committed by another transaction after this one's snapshot, or is held
\* uncommitted by another transaction
WriteConflict(p, u) ==
    \/ u \in req[p].stale
    \/ \E q \in Procs \ {p} : u \in req[q].written

\* the first operation through the session fixes the snapshot
Snapshot(r) == IF r.hasSnap THEN r ELSE [r EXCEPT !.hasSnap = TRUE, !.snap = balance]

InsufficientFunds_Off(bal, amount) == FALSE

InsufficientFunds_Inclusive(bal, amount) == bal <= amount

\* if (wallet.balance < amount)
InsufficientFunds(bal, amount) == bal < amount

InvalidAmount_Negative(amount) == amount < 0

InvalidAmount_Zero(amount) == amount = 0

\* if (!amount || amount <= 0)
InvalidAmount(amount) == amount <= 0


(* ------------------------------------------------------------- requests *)
\* const session = await mongoose.startSession(); session.startTransaction();
NewRequest(op, actor, amount, toEmail, keep) ==
    [Idle EXCEPT !.keep = keep, !.op = op, !.id = nReqs + 1, !.actor = actor, !.amount = amount,
                 !.toEmail = toEmail, !.txn = "active"]

NewTransaction_Debit(r) ==
    [NoTxn EXCEPT !.id = r.id, !.fromUserId = r.actor,
                  !.toUserId = IF r.op = "TRANSFER" THEN r.recipient ELSE NoUser,
                  !.amount = r.amount, !.type = r.op, !.createdAt = now]

NewTransaction_Both(r) ==
    [NoTxn EXCEPT !.id = r.id, !.fromUserId = r.actor,
                  !.toUserId = IF r.op = "TRANSFER" THEN r.recipient ELSE r.actor,
                  !.amount = r.amount, !.type = r.op, !.createdAt = now]

\* the transaction document a handler passes to Transaction.create
NewTransaction(r) ==
    [NoTxn EXCEPT !.id = r.id,
                  !.fromUserId = IF r.op = "DEPOSIT" THEN NoUser ELSE r.actor,
                  !.toUserId = IF r.op = "DEPOSIT" THEN r.actor
                               ELSE IF r.op = "TRANSFER" THEN r.recipient ELSE NoUser,
                  !.amount = r.amount, !.type = r.op, !.createdAt = now]

Flag_Overwrite(r, reason) ==
    [r EXCEPT !.transaction = [NoTxn EXCEPT !.isFlagged = TRUE, !.flagReason = reason],
              !.pc = "saveFlag"]

\* transaction[0].isFlagged = true; transaction[0].flagReason = isFraudulent;
Flag(r, reason) ==
    [r EXCEPT !.transaction.isFlagged = TRUE, !.transaction.flagReason = reason,
              !.pc = "saveFlag"]

\* where the handler goes after Transaction.create: into detectFraud, up to
\* its first await
AfterCreate(r) ==
    IF r.transaction.type = "TRANSFER" THEN [r EXCEPT !.pc = "detectRecent"]
    ELSE IF LargeRule(r.transaction) THEN Flag(r, Large)
    ELSE [r EXCEPT !.pc = "detectAverage"]

\* where the handler goes once its wallets are saved: Transaction.create
AfterSave_NoCreate(r) == "detectAverage"

AfterSave(r) == "create"

FirstSaved_ById(r) == IF r.op = "TRANSFER" /\ r.recipient < r.actor THEN r.recipient ELSE r.actor

\* the order in which the transfer handler saves its two wallets
FirstSaved(r) == r.actor

SecondSaved(r) == r.recipient

LocalBalance_Sender(r, u) == r.wallet

\* the balance a handler writes to wallet u
LocalBalance(r, u) == IF u = r.actor THEN r.wallet ELSE r.recipientWallet

(* -------------------------------------------------------------- handlers *)
\* the next request arrives and is given slot p, the slots taking the requests
\* in turn; a slot is free before its first request and once it has answered
Arrives(p, limit) ==
    /\ nReqs < limit
    /\ p = (nReqs % Cardinality(Procs)) + 1
    /\ req[p].pc \in {"idle", "done"}

StartDeposit(p, actors, amounts, limit, keep) ==
    /\ Arrives(p, limit)
    /\ \E actor \in actors, amount \in amounts :
         LET r == NewRequest("DEPOSIT", actor, amount, 0, keep)
         IN req' = [req EXCEPT ![p] =
                IF InvalidAmount(amount)
                THEN Answer(r, 400, "Valid amount is required", "amount", "abandoned")
                ELSE [r EXCEPT !.pc = "findWallet"]]
    /\ nReqs' = nReqs + 1
    /\ UNCHANGED <<balance, ledger, now, opening, okWithdrawn>>

StartWithdraw(p, actors, amounts, limit, keep) ==
    /\ Arrives(p, limit)
    /\ \E actor \in actors, amount \in amounts :
         LET r == NewRequest("WITHDRAWAL", actor, amount, 0, keep)
         IN req' = [req EXCEPT ![p] =
                IF InvalidAmount(amount)
                THEN Answer(r, 400, "Valid amount is required", "amount", "abandoned")
                ELSE [r EXCEPT !.pc = "findWallet"]]
    /\ nReqs' = nReqs + 1
    /\ UNCHANGED <<balance, ledger, now, opening, okWithdrawn>>

StartTransfer(p, actors, amounts, keys, limit, keep) ==
    /\ Arrives(p, limit)
    /\ \E actor \in actors, amount \in amounts, toEmail \in keys :
         LET r == NewRequest("TRANSFER", actor, amount, toEmail, keep)
         IN req' = [req EXCEPT ![p] =
                IF toEmail = 0 \/ InvalidAmount(amount)
                THEN Answer(r, 400, "Valid recipient email and amount are required",
                            "amount", "abandoned")
                ELSE [r EXCEPT !.pc = "findRecipient"]]
    /\ nReqs' = nReqs + 1
    /\ UNCHANGED <<balance, ledger, now, opening, okWithdrawn>>

\* User.findOne({ email: toEmail, isDeleted: false }), read outside the session
FindRecipient(p) ==
    /\ req[p].pc = "findRecipient"
    /\ \E fault \in BOOLEAN :
         LET r == req[p]
             recipient == FindUser(r.toEmail)
         IN req' = [req EXCEPT ![p] =
                IF fault THEN Catch(r, "storage fault", "findRecipient")
                ELSE IF recipient = NoUser
                THEN Reject(r, 404, "Recipient not found", "recipient")
                ELSE IF recipient = r.actor
                THEN Reject(r, 400, "Cannot transfer to your own account", "self")
                ELSE [r EXCEPT !.recipient = recipient, !.pc = "findWallet"]]
    /\ UNCHANGED <<balance, ledger, now, nReqs, opening, okWithdrawn>>

\* Wallet.findOne({ userId: req.user.userId }).session(session) and the checks on it
FindWallet(p) ==
    /\ req[p].pc = "findWallet"
    /\ \E fault \in BOOLEAN :
         LET r == Snapshot(req[p])
             found == r.actor \in Wallets
             bal == IF found THEN r.snap[r.actor] ELSE 0
         IN req' = [req EXCEPT ![p] =
                IF fault THEN Catch(r, "storage fault", "findWallet")
                ELSE IF r.op = "TRANSFER"
                THEN IF ~found \/ InsufficientFunds(bal, r.amount)
                     THEN Reject(r, 400, "Insufficient funds", "funds")
                     ELSE [r EXCEPT !.wallet = bal, !.pc = "findRecipientWallet"]
                ELSE IF ~found
                THEN Reject(r, 404, "Wallet not found", "wallet")
                ELSE IF r.op = "WITHDRAWAL"
                THEN IF InsufficientFunds(bal, r.amount)
                     THEN Reject(r, 400, "Insufficient funds", "funds")
                     ELSE [r EXCEPT !.wallet = bal - r.amount, !.pc = "saveWallet"]
                ELSE [r EXCEPT !.wallet = bal + r.amount, !.pc = "saveWallet"]]
    /\ UNCHANGED <<balance, ledger, now, nReqs, opening, okWithdrawn>>

\* Wallet.findOne({ userId: recipient._id }).session(session), then
\* senderWallet.balance -= amount; recipientWallet.balance += amount;
FindRecipientWallet(p) ==
    /\ req[p].pc = "findRecipientWallet"
    /\ \E fault \in BOOLEAN :
         LET r == req[p]
         IN req' = [req EXCEPT ![p] =
                IF fault THEN Catch(r, "storage fault", "findRecipientWallet")
                ELSE IF r.recipient \notin Wallets
                THEN Reject(r, 404, "Recipient wallet not found", "recipientWallet")
                ELSE [r EXCEPT !.wallet = r.wallet - r.amount,
                               !.recipientWallet = r.snap[r.recipient] + r.amount,
                               !.pc = "saveWallet"]]
    /\ UNCHANGED <<balance, ledger, now, nReqs, opening, okWithdrawn>>

\* await wallet.save({ session }) / await senderWallet.save({ session })
SaveWallet(p) ==
    /\ req[p].pc = "saveWallet"
    /\ \E fault \in BOOLEAN :
         LET r == req[p]
             u == FirstSaved(r)
         IN req' = [req EXCEPT ![p] =
                IF fault THEN Catch(r, "storage fault", "saveWallet")
                ELSE IF WriteConflict(p, u) THEN Catch(r, "write conflict", "saveWallet")
                ELSE [r EXCEPT !.written = r.written \cup {u},
                               !.pc = IF r.op = "TRANSFER" THEN "saveRecipientWallet"
                                      ELSE AfterSave(r)]]
    /\ UNCHANGED <<balance, ledger, now, nReqs, opening, okWithdrawn>>

\* await recipientWallet.save({ session })
SaveRecipientWallet(p) ==
    /\ req[p].pc = "saveRecipientWallet"
    /\ \E fault \in BOOLEAN :
         LET r == req[p]
             u == SecondSaved(r)
         IN req' = [req EXCEPT ![p] =
                IF fault THEN Catch(r, "storage fault", "saveRecipientWallet")
                ELSE IF WriteConflict(p, u)
                THEN Catch(r, "write conflict", "saveRecipientWallet")
                ELSE [r EXCEPT !.written = r.written \cup {u}, !.pc = AfterSave(r)]]
    /\ UNCHANGED <<balance, ledger, now, nReqs, opening, okWithdrawn>>

\* await Transaction.create([{...}], { session }), then detectFraud up to its first await
Create(p) ==
    /\ req[p].pc = "create"
    /\ \E fault \in BOOLEAN :
         LET r == req[p]
             t == NewTransaction(r)
         IN req' = [req EXCEPT ![p] =
                IF fault THEN Catch(r, "storage fault", "create")
                ELSE AfterCreate([r EXCEPT !.transaction = t, !.saved = t])]
    /\ UNCHANGED <<balance, ledger, now, nReqs, opening, okWithdrawn>>

\* detectFraud, first query (no session: committed documents only), then the
\* rules up to the second await
DetectRecent(p) ==
    /\ req[p].pc = "detectRecent"
    /\ \E fault \in BOOLEAN :
         LET r == req[p]
         IN req' = [req EXCEPT ![p] =
                IF fault THEN Catch(r, "storage fault", "detectRecent")
                ELSE IF VelocityRule(r.actor, r.transaction, ledger, now)
                THEN Flag(r, Velocity)
                ELSE IF LargeRule(r.transaction) THEN Flag(r, Large)
                ELSE [r EXCEPT !.pc = "detectAverage"]]
    /\ UNCHANGED <<balance, ledger, now, nReqs, opening, okWithdrawn>>

\* detectFraud, second query (no session) and the rule on the average
DetectAverage(p) ==
    /\ req[p].pc = "detectAverage"
    /\ \E fault \in BOOLEAN :
         LET r == req[p]
         IN req' = [req EXCEPT ![p] =
                IF fault THEN Catch(r, "storage fault", "detectAverage")
                ELSE IF AverageRule(r.actor, r.transaction, ledger, now)
                THEN Flag(r, Outlier)
                ELSE [r EXCEPT !.pc = "commit"]]
    /\ UNCHANGED <<balance, ledger, now, nReqs, opening, okWithdrawn>>

\* await transaction[0].save({ session })
SaveFlag(p) ==
    /\ req[p].pc = "saveFlag"
    /\ \E fault \in BOOLEAN :
         LET r == req[p]
         IN req' = [req EXCEPT ![p] =
                IF fault THEN Catch(r, "storage fault", "saveFlag")
                ELSE [r EXCEPT !.saved = r.transaction, !.pc = "commit"]]
    /\ UNCHANGED <<balance, ledger, now, nReqs, opening, okWithdrawn>>

\* await session.commitTransaction(); res.status(200).json({...})
\* A commit that throws lands in the catch block, whose abortTransaction is
\* refused after commitTransaction was called: no response is sent.
Commit(p) ==
    /\ req[p].pc = "commit"
    /\ \E fault \in BOOLEAN :
         LET r == req[p]
         IN IF fault
            THEN /\ req' = [req EXCEPT ![p] = Answer(r, 0, "no response", "commit", "commitFailed")]
                 /\ UNCHANGED <<balance, ledger, okWithdrawn>>
            ELSE /\ balance' = [u \in Wallets |->
                        IF u \in r.written THEN LocalBalance(r, u) ELSE balance[u]]
                 /\ ledger' = Append(ledger, r.saved)
                 /\ okWithdrawn' = IF r.op = "WITHDRAWAL"
                                   THEN [okWithdrawn EXCEPT ![r.actor] = @ + r.amount]
                                   ELSE okWithdrawn
                 /\ req' = [q \in Procs |->
                        IF q = p
                        THEN [Answer(r, 200, "successful", "", "committed")
                                EXCEPT !.res.balance = r.wallet,
                                       !.res.transaction = r.transaction]
                        ELSE IF req[q].hasSnap
                        THEN [req[q] EXCEPT !.stale = @ \cup r.written]
                        ELSE req[q]]
    /\ UNCHANGED <<now, nReqs, opening>>

\* Date.now() moves on
Tick(limit) ==
    /\ now < limit
    /\ now' = now + 1
    /\ UNCHANGED <<balance, ledger, req, nReqs, opening, okWithdrawn>>

(* ------------------------------------------------------- specifications *)
InitWith(b, n) ==
    /\ balance = b
    /\ opening = b
    /\ ledger = <<>>
    /\ req = [p \in 1..n |-> Idle]
    /\ now = 0
    /\ nReqs = 0
    /\ okWithdrawn = [u \in Wallets |-> 0]

Step(p) ==
    \/ FindRecipient(p) \/ FindWallet(p) \/ FindRecipientWallet(p)
    \/ SaveWallet(p) \/ SaveRecipientWallet(p) \/ Create(p)
    \/ DetectRecent(p) \/ DetectAverage(p) \/ SaveFlag(p)
    \/ Commit(p)

\* requests that overlap in every way
Init == InitWith(InitBalance, MaxReqs)

Next ==
    \E p \in 1..MaxReqs :
       \/ StartDeposit(p, Wallets, Amounts, MaxReqs, FALSE)
       \/ StartWithdraw(p, Wallets, Amounts, MaxReqs, FALSE)
       \/ StartTransfer(p, Wallets, Amounts, Wallets, MaxReqs, FALSE)
       \/ Step(p)

Spec == Init /\ [][Next]_vars

\* requests one after the other, while the clock runs
InitSeq == InitWith(SeqInitBalance, 1)

NextSeq ==
    \/ \E p \in {1} :
         \/ StartTransfer(p, Wallets, SeqAmounts, Wallets, MaxSeqReqs, TRUE)
         \/ Step(p)
    \/ Tick(MaxSeqClock)

SpecSeq == InitSeq /\ [][NextSeq]_vars

\* requests one after the other, with every kind of input
InitInputs == InitWith(InitBalance, 1)

NextInputs ==
    \E p \in {1} :
       \/ StartDeposit(p, Actors, AnyAmounts, MaxInputReqs, TRUE)
       \/ StartWithdraw(p, Actors, AnyAmounts, MaxInputReqs, TRUE)
       \/ StartTransfer(p, Actors, AnyAmounts, Keys, MaxInputReqs, TRUE)
       \/ Step(p)

SpecInputs == InitInputs /\ [][NextInputs]_vars

\* overlapping requests whose handlers are resumed whenever the step they
\* await has an outcome: the event loop runs every continuation that is ready
InitLive == InitWith(InitBalance, MaxLiveReqs)

NextLive ==
    \E p \in 1..MaxLiveReqs :
       \/ StartDeposit(p, Wallets, Amounts \ SeqAmounts, MaxLiveReqs, FALSE)
       \/ StartWithdraw(p, Wallets, SeqAmounts, MaxLiveReqs, FALSE)
       \/ StartTransfer(p, Wallets, SeqAmounts, Wallets, MaxLiveReqs, FALSE)
       \/ Step(p)

SpecLive == InitLive /\ [][NextLive]_vars /\ \A p \in 1..MaxLiveReqs : WF_vars(Step(p))

\* requests one after the other, with amounts around the large-withdrawal
\* threshold on a wallet that can pay them
LargeInitBalance == [u \in Wallets |-> IF u = 1 THEN 2000 ELSE 0]

LargeAmounts == {1, 1000, 1001, 1500}

InitLarge == InitWith(LargeInitBalance, 1)

NextLarge ==
    \E p \in {1} :
       \/ StartDeposit(p, Wallets, SeqAmounts, MaxLargeReqs, TRUE)
       \/ StartWithdraw(p, Wallets, LargeAmounts, MaxLargeReqs, TRUE)
       \/ StartTransfer(p, Wallets, LargeAmounts, Wallets, MaxLargeReqs, TRUE)
       \/ Step(p)

SpecLarge == InitLarge /\ [][NextLarge]_vars

\* detectFraud on its own, applied to a transaction over a stored collection
\* the time of the call: late enough for records older than thirty days
FraudNow == PastMonth + 2 * OneHour

\* kinds of stored record around user 1: outgoing transfers of the last hour
\* and of two hours ago, an incoming transfer, a deposit older than thirty
\* days, a withdrawal of the last month
FraudKinds ==
    { [NoTxn EXCEPT !.type = "TRANSFER", !.fromUserId = 1, !.toUserId = 2,
                    !.amount = 1, !.createdAt = FraudNow],
      [NoTxn EXCEPT !.type = "TRANSFER", !.fromUserId = 1, !.toUserId = 2,
                    !.amount = 1, !.createdAt = FraudNow - 2 * OneHour],
      [NoTxn EXCEPT !.type = "TRANSFER", !.fromUserId = 2, !.toUserId = 1,
                    !.amount = 4, !.createdAt = FraudNow - OneHour],
      [NoTxn EXCEPT !.type = "DEPOSIT", !.toUserId = 1,
                    !.amount = 4, !.createdAt = 0],
      [NoTxn EXCEPT !.type = "WITHDRAWAL", !.fromUserId = 1,
                    !.amount = 1500, !.createdAt = FraudNow - 2 * OneHour] }

FraudAmounts == {1, 4, 1000, 1001, 5000}

Histories ==
    UNION { { [i \in 1..n |-> [h[i] EXCEPT !.id = i]] : h \in [1..n -> FraudKinds] }
            : n \in 0..MaxHistory }

\* const isFraudulent = await detectFraud(req.user.userId, transaction[0]);
\* if (isFraudulent) { isFlagged = true; flagReason = isFraudulent; }
ClassifyFraud(p) ==
    /\ req[p].pc = "idle"
    /\ \E userId \in Wallets, type \in {"DEPOSIT", "WITHDRAWAL", "TRANSFER"},
          amount \in FraudAmounts :
         LET r == [NewRequest(type, userId, amount, 0, TRUE)
                       EXCEPT !.recipient = IF type = "TRANSFER" THEN 3 - userId ELSE NoUser]
             transaction == NewTransaction(r)
             isFraudulent == detectFraud(userId, transaction, ledger, now)
         IN req' = [req EXCEPT ![p] =
                IF isFraudulent # NoReason
                THEN [Flag([r EXCEPT !.transaction = transaction], isFraudulent)
                          EXCEPT !.pc = "classified"]
                ELSE [r EXCEPT !.transaction = transaction, !.pc = "classified"]]
    /\ UNCHANGED <<balance, ledger, now, nReqs, opening, okWithdrawn>>

InitFraud ==
    /\ balance = InitBalance
    /\ opening = InitBalance
    /\ ledger \in Histories
    /\ req = [p \in 1..1 |-> Idle]
    /\ now = FraudNow
    /\ nReqs = Len(ledger)
    /\ okWithdrawn = [u \in Wallets |-> 0]

NextFraud == \E p \in {1} : ClassifyFraud(p)

SpecFraud == InitFraud /\ [][NextFraud]_vars

(* ================================================================ claims *)
Ids(led) == {led[i].id : i \in 1..Len(led)}

Done(p) == req[p].pc = "done"

\* what the records of a ledger add to the wallet of user u
RECURSIVE Effect(_, _)
Effect(led, u) ==
    IF led = <<>> THEN 0
    ELSE LET t == Head(led)
         IN (IF t.toUserId = u THEN t.amount ELSE 0)
            - (IF t.fromUserId = u THEN t.amount ELSE 0)
            + Effect(Tail(led), u)

Credited(led, u) == \E i \in 1..Len(led) : led[i].toUserId = u

(* C1: withdrawals that overlap on one wallet of balance B, and nothing paid *)
(* into it: the amounts of those that answered 200 add up to at most B, and *)
(* the committed balance is never negative.                                 *)
C1_WithdrawalsWithinBalance ==
    \A u \in Wallets :
        ~Credited(ledger, u) => okWithdrawn[u] <= opening[u] /\ balance[u] >= 0

\* one withdrawal of the whole balance has answered 200 while another
\* withdrawal from the same wallet, admitted on the old balance, has yet to save
C1_Witness ==
    \E p, q \in Procs :
        /\ Done(p) /\ req[p].res.status = 200
        /\ req[p].res.transaction.type = "WITHDRAWAL"
        /\ req[q].pc = "saveWallet" /\ req[q].op = "WITHDRAWAL"
        /\ req[q].actor = req[p].res.transaction.fromUserId
        /\ req[q].amount + req[p].res.transaction.amount > opening[req[q].actor]
        /\ ~Credited(ledger, req[q].actor)

(* C2: atomicity: every committed balance is the opening balance plus the   *)
(* effect of the committed records of its owner, each record is in the      *)
(* ledger once, and a request that did not answer 200 has no record.        *)
C2_Atomicity ==
    /\ \A u \in Wallets : balance[u] = opening[u] + Effect(ledger, u)
    /\ \A i, j \in 1..Len(ledger) : ledger[i].id = ledger[j].id => i = j
    /\ \A p \in Procs : Done(p) =>
          (req[p].res.status = 200 <=> req[p].id \in Ids(ledger))
    /\ \A p \in Procs : ~Done(p) => req[p].id \notin Ids(ledger)

\* a request has committed while another one was rolled back after its wallet
\* was saved
C2_Witness ==
    \E p, q \in Procs :
        /\ Done(p) /\ req[p].res.status = 200
        /\ Done(q) /\ req[q].res.status = 500 /\ req[q].res.at = "create"

(* C3: the step in which a transfer of A from X to Y commits takes A from   *)
(* the balance of X, adds A to the balance of Y, leaves every other balance *)
(* alone and appends exactly one TRANSFER record naming X and Y.            *)
C3_TransferConserves ==
    [][\A p \in Procs :
         (req[p].pc = "commit" /\ req[p].op = "TRANSFER" /\ req'[p].res.status = 200) =>
            LET X == req[p].actor
                Y == req[p].recipient
                A == req[p].amount
            IN /\ balance'[X] = balance[X] - A
               /\ balance'[Y] = balance[Y] + A
               /\ balance'[X] + balance'[Y] = balance[X] + balance[Y]
               /\ \A u \in Wallets \ {X, Y} : balance'[u] = balance[u]
               /\ Len(ledger') = Len(ledger) + 1
               /\ SubSeq(ledger', 1, Len(ledger)) = ledger
               /\ ledger'[Len(ledger')].type = "TRANSFER"
               /\ ledger'[Len(ledger')].fromUserId = X
               /\ ledger'[Len(ledger')].toUserId = Y
               /\ ledger'[Len(ledger')].amount = A]_vars

\* a transfer has answered 200 after another request had changed a balance
C3_Witness ==
    \E p \in Procs :
        /\ Done(p) /\ req[p].res.status = 200
        /\ req[p].res.transaction.type = "TRANSFER"
        /\ Len(ledger) >= 2

(* C4: every committed balance is at least 0 in every reachable state.      *)
C4_BalanceNonNegative == \A u \in Wallets : balance[u] >= 0

\* a wallet was emptied and a request was refused for insufficient funds
C4_Witness ==
    /\ \E u \in Wallets : balance[u] = 0 /\ opening[u] > 0
    /\ \E p \in Procs : Done(p) /\ req[p].res.message = "Insufficient funds"

(* C5: a storage fault in the mutation phase (the wallet save, the second   *)
(* wallet save of a transfer, the append of the record) is answered with    *)
(* 500 after the transaction is aborted, the step changes no committed      *)
(* balance and no ledger entry, and the request never gets a record.        *)
MutationPcs == {"saveWallet", "saveRecipientWallet", "create"}

Pending(p) ==
    \/ req[p].pc \in {"saveRecipientWallet"} /\ req[p].written # {}
    \/ req[p].pc \in {"create"} /\ req[p].written # {}
    \/ /\ req[p].pc \in {"detectRecent", "detectAverage", "saveFlag"}
       /\ req[p].saved.id = req[p].id

C5_FaultLeavesNothing ==
    /\ [][\A p \in Procs :
            (req[p].pc \in MutationPcs /\ req'[p].pc # req[p].pc) =>
               \/ Pending(p)'
               \/ /\ req'[p].pc = "done"
                  /\ req'[p].res.status = 500
                  /\ req'[p].txn = "aborted"
                  /\ balance' = balance
                  /\ ledger' = ledger]_vars
    /\ [](\A p \in Procs :
            (Done(p) /\ req[p].res.at \in MutationPcs) =>
               req[p].res.status = 500 /\ req[p].id \notin Ids(ledger))

\* one request failed at the append after its wallet was saved, another at
\* the second wallet save of a transfer
C5_Witness ==
    \E p, q \in Procs :
        /\ Done(p) /\ req[p].res.message = "storage fault" /\ req[p].res.at = "create"
        /\ Done(q) /\ req[q].res.message = "storage fault"
        /\ req[q].res.at = "saveRecipientWallet"
        /\ balance = opening /\ ledger = <<>>

ClassifyPcs == {"detectRecent", "detectAverage", "saveFlag"}

RECURSIVE TransfersFrom(_, _)
TransfersFrom(led, a) ==
    IF led = <<>> THEN <<>>
    ELSE IF Head(led).type = "TRANSFER" /\ Head(led).fromUserId = a
    THEN <<Head(led)>> \o TransfersFrom(Tail(led), a)
    ELSE TransfersFrom(Tail(led), a)

C8_FifthTransferFlagged ==
    now <= OneHour =>
        \A a \in Wallets :
            LET T == TransfersFrom(ledger, a)
            IN \A k \in 1..Len(T) :
                  /\ k < VelocityLimit => ~T[k].isFlagged
                  /\ k = VelocityLimit =>
                        T[k].isFlagged /\ T[k].flagReason = Velocity

(* C9 as stated: a transfer saves its two wallets in ascending order of the *)
(* account id, whoever sends.                                               *)
Lower(a, b) == IF a < b THEN a ELSE b

C9_SavedInIdOrder ==
    \A p \in Procs :
        (req[p].op = "TRANSFER" /\ req[p].pc = "saveRecipientWallet") =>
            req[p].written = {Lower(req[p].actor, req[p].recipient)}

(* C9 amended: a transfer saves the wallet of the sender first and the      *)
(* wallet of the recipient second, whatever their ids: two transfers        *)
(* X -> Y and Y -> X touch the two wallets in opposite orders.              *)
C9_SenderSavedFirst ==
    \A p \in Procs :
        req[p].op = "TRANSFER" =>
            /\ req[p].pc = "saveRecipientWallet" => req[p].written = {req[p].actor}
            /\ req[p].pc \in {"create", "commit"} \cup ClassifyPcs =>
                  req[p].written = {req[p].actor, req[p].recipient}
            /\ req[p].pc \in {"findRecipient", "findWallet", "findRecipientWallet",
                              "saveWallet"} => req[p].written = {}

\* two transfers in opposite directions, each holding the wallet of its sender
C9_Witness ==
    \E p, q \in Procs :
        /\ req[p].op = "TRANSFER" /\ req[q].op = "TRANSFER"
        /\ req[p].pc = "saveRecipientWallet" /\ req[q].pc = "saveRecipientWallet"
        /\ req[p].actor = req[q].recipient /\ req[q].actor = req[p].recipient
        /\ req[p].written = {req[p].actor} /\ req[q].written = {req[q].actor}
        /\ req[p].actor < req[q].actor

(* C10: a transfer checks amount, recipient, self-transfer and funds in     *)
(* this order and answers with the first check that fails, a storage fault  *)
(* of the recipient lookup aside: a non-positive amount is answered as an   *)
(* invalid amount whoever the recipient is, a missing or deleted recipient  *)
(* as recipient not found and a recipient equal to the sender as a          *)
(* self-transfer whatever the balance of the sender.                        *)
C10_ValidationOrder ==
    \A p \in Procs :
        (Done(p) /\ req[p].op = "TRANSFER") =>
            LET r == req[p]
                recipient == FindUser(r.toEmail)
            IN /\ r.amount <= 0 =>
                    /\ r.res.status = 400
                    /\ r.res.message = "Valid recipient email and amount are required"
               /\ (r.amount > 0 /\ r.toEmail # 0 /\ recipient = NoUser) =>
                    \/ r.res.status = 404 /\ r.res.message = "Recipient not found"
                    \/ r.res.status = 500 /\ r.res.at = "findRecipient"
               /\ (r.amount > 0 /\ recipient # NoUser /\ recipient = r.actor) =>
                    \/ /\ r.res.status = 400
                       /\ r.res.message = "Cannot transfer to your own account"
                    \/ r.res.status = 500 /\ r.res.at = "findRecipient"
               /\ r.res.message = "Insufficient funds" =>
                    /\ r.amount > 0
                    /\ recipient # NoUser /\ recipient # r.actor

\* a transfer to a deleted user by a sender who could not pay was answered
\* recipient not found
C10_Witness ==
    \E p \in Procs :
        /\ Done(p) /\ req[p].op = "TRANSFER"
        /\ req[p].toEmail = DeletedUser
        /\ req[p].actor \in Wallets /\ balance[req[p].actor] < req[p].amount
        /\ req[p].res.message = "Recipient not found"

(* C11: a deposit, a withdrawal or a transfer whose amount is zero (which   *)
(* is also how a missing amount reads) or negative is answered 400 with the *)
(* invalid-amount message of its handler by the very step in which it       *)
(* arrives, and that step changes no balance and no ledger record; the      *)
(* request never reaches the ledger afterwards.                             *)
C11_InvalidAmountRejected ==
    /\ [][\A p \in Procs :
            (req'[p].id # req[p].id /\ req'[p].amount <= 0) =>
                /\ req'[p].pc = "done"
                /\ req'[p].res.status = 400
                /\ req'[p].res.message =
                       IF req'[p].op = "TRANSFER"
                       THEN "Valid recipient email and amount are required"
                       ELSE "Valid amount is required"
                /\ req'[p].txn # "committed"
                /\ balance' = balance
                /\ ledger' = ledger]_vars
    /\ [](\A p \in Procs :
            (req[p].id # 0 /\ req[p].amount <= 0) =>
                /\ Done(p)
                /\ req[p].id \notin Ids(ledger))

\* after a committed operation, a deposit of a negative amount was refused and
\* the ledger still holds that one record
C11_Witness ==
    \E p \in Procs :
        /\ Done(p) /\ req[p].op = "DEPOSIT" /\ req[p].amount < 0
        /\ req[p].res.status = 400
        /\ Len(ledger) = 1 /\ req[p].id = 2

\* the rule, if any, that refuses request r at the lookup it is about to make
Refusal(r) ==
    IF r.pc = "findRecipient" /\ FindUser(r.toEmail) = NoUser
    THEN "Recipient not found"
    ELSE IF r.pc = "findRecipient" /\ FindUser(r.toEmail) = r.actor
    THEN "Cannot transfer to your own account"
    ELSE IF r.pc = "findWallet" /\ r.actor \notin Wallets
    THEN IF r.op = "TRANSFER" THEN "Insufficient funds" ELSE "Wallet not found"
    ELSE IF r.pc = "findWallet" /\ r.op # "DEPOSIT" /\ balance[r.actor] < r.amount
    THEN "Insufficient funds"
    ELSE IF r.pc = "findRecipientWallet" /\ r.recipient \notin Wallets
    THEN "Recipient wallet not found"
    ELSE "none"

(* C12: an operation that a business rule refuses (recipient not found,     *)
(* transfer to oneself, wallet not found, insufficient funds) is answered   *)
(* 400 or 404 by the lookup that finds the rule broken, with its            *)
(* transaction aborted, before the handler has written anything: no balance *)
(* and no ledger record changes in that step, nothing is pending, and the   *)
(* request never reaches the ledger.  In particular a transfer whose        *)
(* recipient email resolves to the sender is answered "Cannot transfer to   *)
(* your own account".  A storage fault of the lookup is answered 500 and    *)
(* changes nothing either.                                                  *)
C12_RejectedBeforeMutation ==
    /\ [][\A p \in Procs :
            (Refusal(req[p]) # "none" /\ req'[p] # req[p]) =>
                /\ req'[p].pc = "done"
                /\ \/ /\ req'[p].res.status \in {400, 404}
                      /\ req'[p].res.message = Refusal(req[p])
                   \/ req'[p].res.status = 500 /\ req'[p].res.at = req[p].pc
                /\ req'[p].txn = "aborted"
                /\ req[p].written = {} /\ req[p].saved = NoTxn
                /\ balance' = balance
                /\ ledger' = ledger]_vars
    /\ [](\A p \in Procs :
            (Done(p) /\ req[p].res.status \in {400, 404}) =>
                /\ req[p].id \notin Ids(ledger)
                /\ req[p].txn \in {"aborted", "abandoned"})

\* after a committed operation, a transfer to the sender's own email was
\* refused as a self-transfer and the ledger still holds that one record
C12_Witness ==
    \E p \in Procs :
        /\ Done(p) /\ req[p].op = "TRANSFER"
        /\ req[p].amount > 0 /\ req[p].toEmail = req[p].actor
        /\ req[p].res.message = "Cannot transfer to your own account"
        /\ Len(ledger) = 1 /\ req[p].id = 2

(* C13: an actor who has no wallet is refused with the wallet-not-found     *)
(* answer (404, "Wallet not found") and nothing changes, whichever of       *)
(* deposit, withdrawal and transfer is asked for; for a transfer this is    *)
(* the answer once the amount and the recipient have passed their checks,   *)
(* and it is not the insufficient-funds answer.  Storage faults aside.      *)
C13_NoWalletIsWalletNotFound ==
    \A p \in Procs :
        (/\ Done(p)
         /\ req[p].actor # NoUser /\ req[p].actor \notin Wallets
         /\ req[p].amount > 0
         /\ req[p].op = "TRANSFER" =>
                (FindUser(req[p].toEmail) # NoUser /\ FindUser(req[p].toEmail) # req[p].actor)
         /\ req[p].res.status # 500) =>
            /\ req[p].res.status = 404
            /\ req[p].res.message = "Wallet not found"
            /\ req[p].id \notin Ids(ledger)

\* the stored records that count for the velocity rule and for the mean of
\* user u at time t, picked record by record
RECURSIVE TransfersInLastHour(_, _, _)
TransfersInLastHour(led, u, t) ==
    IF led = <<>> THEN 0
    ELSE (IF /\ Head(led).type = "TRANSFER" /\ Head(led).fromUserId = u
             /\ t - Head(led).createdAt <= 1
          THEN 1 ELSE 0) + TransfersInLastHour(Tail(led), u, t)

RECURSIVE MonthHistory(_, _, _)
MonthHistory(led, u, t) ==
    IF led = <<>> THEN <<>>
    ELSE (IF /\ u \in {Head(led).fromUserId, Head(led).toUserId}
             /\ t - Head(led).createdAt <= 720
          THEN <<Head(led).amount>> ELSE <<>>) \o MonthHistory(Tail(led), u, t)

RECURSIVE Total(_)
Total(amounts) == IF amounts = <<>> THEN 0 ELSE Head(amounts) + Total(Tail(amounts))

(* C14: the fraud classifier applies its three rules in a fixed order and  *)
(* the first that matches decides: a transfer by a user with five or more   *)
(* outgoing transfers stored in the last hour is "Multiple transfers in a   *)
(* short period"; otherwise a withdrawal above 1000 is "Large withdrawal",  *)
(* also when it exceeds three times the mean; otherwise, if the user has    *)
(* records in the last thirty days and the amount exceeds three times their *)
(* mean, it is "Transaction amount significantly higher than average";      *)
(* otherwise it is not flagged, in particular when the history is empty.    *)
C14_RulePriority ==
    \A p \in Procs :
        req[p].pc = "classified" =>
            LET t == req[p].transaction
                history == MonthHistory(ledger, req[p].actor, now)
                velocity == /\ t.type = "TRANSFER"
                            /\ TransfersInLastHour(ledger, req[p].actor, now) >= 5
                large == t.type = "WITHDRAWAL" /\ t.amount > 1000
                outlier == /\ Len(history) > 0
                           /\ t.amount * Len(history) > 3 * Total(history)
            IN /\ velocity => t.flagReason = Velocity
               /\ (~velocity /\ large) => t.flagReason = Large
               /\ (~velocity /\ ~large /\ outlier) => t.flagReason = Outlier
               /\ (~velocity /\ ~large /\ ~outlier) => t.flagReason = NoReason
               /\ t.isFlagged <=> t.flagReason # NoReason

\* a withdrawal above 1000 that also exceeds three times the mean of a
\* non-empty history was classified as a large withdrawal
C14_Witness ==
    \E p \in Procs :
        /\ req[p].pc = "classified"
        /\ req[p].transaction.type = "WITHDRAWAL"
        /\ req[p].transaction.amount > 1000
        /\ Len(MonthHistory(ledger, req[p].actor, now)) > 0
        /\ req[p].transaction.amount * Len(MonthHistory(ledger, req[p].actor, now))
               > 3 * Total(MonthHistory(ledger, req[p].actor, now))
        /\ req[p].transaction.flagReason = Large

(* C15: the boundary of a withdrawal.  From a wallet whose balance is       *)
(* B > 0, a withdrawal of exactly B passes the funds check and, when it is  *)
(* answered 200, leaves the balance 0 and reports 0; a withdrawal of B plus *)
(* one unit is answered 400 "Insufficient funds" with the balance still B   *)
(* and the ledger as it was.  Storage faults aside (they are answered 500). *)
C15_WithdrawBoundary ==
    [][\A p \in Procs :
        LET r == req[p]
            B == balance[r.actor]
        IN (/\ r.op = "WITHDRAWAL" /\ r.actor \in Wallets /\ B > 0
            /\ req'[p] # r) =>
              /\ (r.pc = "findWallet" /\ r.amount = B + 1) =>
                    /\ req'[p].pc = "done"
                    /\ \/ /\ req'[p].res.status = 400
                          /\ req'[p].res.message = "Insufficient funds"
                       \/ req'[p].res.status = 500
                    /\ balance' = balance
                    /\ ledger' = ledger
              /\ (r.pc = "findWallet" /\ r.amount = B) =>
                    \/ req'[p].pc = "saveWallet" /\ req'[p].wallet = 0
                    \/ req'[p].res.status = 500
              /\ (r.pc = "commit" /\ r.amount = B /\ req'[p].res.status = 200) =>
                    /\ balance'[r.actor] = 0
                    /\ req'[p].res.balance = 0
                    /\ Len(ledger') = Len(ledger) + 1]_vars

\* the whole balance of wallet 1 was withdrawn: answered 200, balance 0
C15_Witness ==
    \E p \in Procs :
        /\ Done(p) /\ req[p].op = "WITHDRAWAL" /\ req[p].actor \in Wallets
        /\ req[p].amount = opening[req[p].actor]
        /\ req[p].res.status = 200 /\ req[p].res.balance = 0
        /\ balance[req[p].actor] = 0
        /\ Len(ledger) = 1

(* C16: a withdrawal above 1000 that is answered 200 returns and records a  *)
(* WITHDRAWAL transaction flagged with the reason "Large withdrawal", and   *)
(* the balance it reports and leaves is the old balance less the amount     *)
(* (1500 from 2000 leaves 500); a withdrawal of 1000 or less that is        *)
(* answered 200 is never given that reason.                                 *)
C16_LargeWithdrawalFlagged ==
    [][\A p \in Procs :
        LET r == req[p]
            t == req'[p].res.transaction
        IN (/\ r.pc = "commit" /\ r.op = "WITHDRAWAL"
            /\ req'[p].res.status = 200) =>
              /\ t.id = r.id /\ t.type = "WITHDRAWAL"
              /\ t.fromUserId = r.actor /\ t.amount = r.amount
              /\ ledger' = Append(ledger, t)
              /\ req'[p].res.balance = balance[r.actor] - r.amount
              /\ balance'[r.actor] = balance[r.actor] - r.amount
              /\ r.amount > 1000 => (t.isFlagged /\ t.flagReason = Large)
              /\ r.amount <= 1000 => t.flagReason # Large]_vars

\* 1500 was withdrawn from the wallet that held 2000: answered 200 with
\* balance 500 and a record flagged as a large withdrawal
C16_Witness ==
    \E p \in Procs :
        /\ Done(p) /\ req[p].op = "WITHDRAWAL" /\ req[p].amount = 1500
        /\ req[p].res.status = 200 /\ req[p].res.balance = 500
        /\ req[p].res.transaction.flagReason = Large
        /\ Len(ledger) = 1 /\ ledger[1].isFlagged /\ ledger[1].flagReason = Large
        /\ balance[1] = 500

\* the fields of a record that say what money moved
Financial(t) == <<t.id, t.fromUserId, t.toUserId, t.amount, t.type, t.currency>>

(* C17: the ledger is append-only.  A committed record is never removed    *)
(* and never changed, flag included, and the ledger grows by one record at  *)
(* a time, the one the committing operation had written.  The record an     *)
(* operation has created but not yet committed carries the id of that       *)
(* operation, keeps its id, parties, amount, type and currency, and is      *)
(* rewritten at most once, by that operation's own flag save, which only    *)
(* sets isFlagged and flagReason.                                           *)
C17_AppendOnly ==
    /\ [][/\ Len(ledger') >= Len(ledger)
          /\ \A i \in 1..Len(ledger) : ledger'[i] = ledger[i]
          /\ Len(ledger') > Len(ledger) =>
                /\ Len(ledger') = Len(ledger) + 1
                /\ \E p \in Procs : /\ req[p].pc = "commit"
                                    /\ req'[p].pc = "done"
                                    /\ ledger'[Len(ledger')] = req[p].saved
          /\ \A p \in Procs :
                (req[p].saved # NoTxn /\ req'[p].saved # NoTxn) =>
                    /\ Financial(req'[p].saved) = Financial(req[p].saved)
                    /\ req'[p].saved # req[p].saved =>
                          /\ req[p].pc = "saveFlag"
                          /\ ~req[p].saved.isFlagged
                          /\ req'[p].saved.isFlagged]_vars
    /\ [](\A p \in Procs :
            req[p].saved # NoTxn =>
                /\ req[p].saved.id = req[p].id
                /\ req[p].saved.id \notin Ids(ledger)
                /\ \A q \in Procs \ {p} : req[q].saved.id # req[p].saved.id)

\* the ledger holds a flagged record next to an unflagged one
C17_Witness ==
    /\ Len(ledger) = 2
    /\ \E i, j \in 1..Len(ledger) : ledger[i].isFlagged /\ ~ledger[j].isFlagged

(* C18: every record of the ledger has an amount above zero and parties of  *)
(* the shape of its type: a DEPOSIT names the credited user only, a         *)
(* WITHDRAWAL the debited user only, a TRANSFER both, and they differ.      *)
C18_WellFormedRecords ==
    \A i \in 1..Len(ledger) :
        LET t == ledger[i]
        IN /\ t.amount > 0
           /\ t.type \in {"DEPOSIT", "WITHDRAWAL", "TRANSFER"}
           /\ t.type = "DEPOSIT" => (t.toUserId # NoUser /\ t.fromUserId = NoUser)
           /\ t.type = "WITHDRAWAL" => (t.fromUserId # NoUser /\ t.toUserId = NoUser)
           /\ t.type = "TRANSFER" =>
                 /\ t.fromUserId # NoUser /\ t.toUserId # NoUser
                 /\ t.fromUserId # t.toUserId

\* the ledger holds a withdrawal and a transfer, after requests of every
\* kind of input
C18_Witness ==
    /\ Len(ledger) = 2
    /\ \E i, j \in 1..Len(ledger) :
          ledger[i].type = "WITHDRAWAL" /\ ledger[j].type = "TRANSFER"

InFlight(p) == req[p].pc \notin {"idle", "done"}

(* C19: no deadlock.  Whatever operations overlap (transfers in opposite    *)
(* directions between the same two wallets included), there comes a time    *)
(* from which no operation is in flight any more: every operation that      *)
(* started has been answered.  While an operation is in flight its next     *)
(* step is always possible, so none waits for another; and once answered it *)
(* has either committed all of its writes or none of them.                  *)
C19_NoDeadlock ==
    /\ <>[](\A p \in 1..MaxLiveReqs : ~InFlight(p))
    /\ [](\A p \in Procs : InFlight(p) => ENABLED Step(p))
    /\ [](\A p \in Procs :
            Done(p) => /\ req[p].written = {} /\ req[p].saved = NoTxn
                       /\ req[p].txn # "active")

\* two overlapping operations have both been answered: a transfer committed
\* and the other operation, a transfer that had saved its own wallet, was
\* aborted on the write conflict at the recipient's wallet instead of waiting
C19_Witness ==
    /\ \A p \in Procs : Done(p)
    /\ Len(ledger) = 1 /\ ledger[1].type = "TRANSFER"
    /\ \E q \in Procs :
          /\ req[q].res.status = 500 /\ req[q].res.message = "write conflict"
          /\ req[q].res.at = "saveRecipientWallet"

(* C20: an operation is answered 200 exactly when its database transaction  *)
(* committed.  The 200 is sent by the step in which commitTransaction       *)
(* succeeds and with it the record reaches the ledger; an operation that is *)
(* answered otherwise, or not answered because the commit failed, leaves    *)
(* its transaction uncommitted (aborted by the handler, or abandoned when   *)
(* the session ends) and no record of it in the ledger; and whichever way   *)
(* the handler ends, its session has been ended, while an operation in      *)
(* flight has an open session, an active transaction and no answer yet.     *)
C20_SuccessIffCommitted ==
    /\ [][\A p \in Procs :
            (req'[p].res.status = 200 /\ req'[p] # req[p]) =>
                /\ req[p].pc = "commit"
                /\ req'[p].txn = "committed"
                /\ ledger' = Append(ledger, req[p].saved)
                /\ req[p].saved.id = req[p].id]_vars
    /\ [](\A p \in Procs :
            /\ Done(p) =>
                  /\ req[p].ended
                  /\ req[p].res.status = 200 <=> req[p].txn = "committed"
                  /\ req[p].txn = "committed" <=> req[p].id \in Ids(ledger)
                  /\ req[p].txn \in {"committed", "aborted", "abandoned", "commitFailed"}
            /\ req[p].pc \notin {"idle", "done"} =>
                  /\ ~req[p].ended
                  /\ req[p].txn = "active"
                  /\ req[p].res.status = 0
                  /\ req[p].id \notin Ids(ledger))

\* after a committed operation, the commit of a second one failed: it was
\* not answered 200, its record is not in the ledger, its session is ended
C20_Witness ==
    \E p \in Procs :
        /\ Done(p) /\ req[p].txn = "commitFailed" /\ req[p].ended
        /\ req[p].res.status # 200
        /\ req[p].id = 2 /\ Ids(ledger) = {1}

====
